---- MODULE Spec2Model ----
(***************************************************************************)
(* Model of odl/discr/discretization.py (RawDiscretization, Discretization,*)
(* their Vector classes and dspace_type), of odl/discr/default.py          *)
(* (DiscreteL2, l2_uniform_discretization) and of odl/util/ufuncs.py (the  *)
(* catalog of operations, the generators of the three ufunc classes and    *)
(* their wrappers).  Objects are records, the data containers of the data  *)
(* space live in a heap of references so that aliasing between an n-tuple  *)
(* and the element wrapping it is visible.                                 *)
(***************************************************************************)
EXTENDS Integers, Sequences, FiniteSets, TLC

VARIABLES cuda, discs, heap, elems, origin, last, generated, objs

vars == <<cuda, discs, heap, elems, origin, last, generated, objs>>

(***************************************************************************)
(* Bounds                                                                  *)
(***************************************************************************)
MaxRefs == 2     \* n-tuples that can be allocated
MaxElems == 2    \* Vector objects that can be created
MaxObjs == 2     \* tensors the reductions act on
MaxLp == 3       \* elements of discretized function spaces
MaxProd == 3     \* elements of product spaces

Refs == 1..MaxRefs

Slots == {"self", "other"}
Attrs == {"uspace", "dspace", "restriction", "extension", "order"}

(***************************************************************************)
(* Spaces.  One record shape for every space so that a data space can also *)
(* be handed in as the undiscretized space.                                *)
(***************************************************************************)
Obj ==
  [id |-> "object", isSet |-> FALSE, isLinearSpace |-> FALSE,
   isNtuplesBase |-> FALSE, isFnBase |-> FALSE, field |-> "nofield",
   dim |-> 0, dtype |-> "none"]
SetS ==
  [id |-> "Set", isSet |-> TRUE, isLinearSpace |-> FALSE,
   isNtuplesBase |-> FALSE, isFnBase |-> FALSE, field |-> "nofield",
   dim |-> 0, dtype |-> "none"]
L2real ==
  [id |-> "L2", isSet |-> TRUE, isLinearSpace |-> TRUE,
   isNtuplesBase |-> FALSE, isFnBase |-> FALSE, field |-> "RealNumbers",
   dim |-> 0, dtype |-> "none"]
NtuplesS ==
  [id |-> "Ntuples", isSet |-> TRUE, isLinearSpace |-> FALSE,
   isNtuplesBase |-> TRUE, isFnBase |-> FALSE, field |-> "nofield",
   dim |-> 1, dtype |-> "int"]
RnS ==
  [id |-> "Rn", isSet |-> TRUE, isLinearSpace |-> TRUE,
   isNtuplesBase |-> TRUE, isFnBase |-> TRUE, field |-> "RealNumbers",
   dim |-> 1, dtype |-> "float64"]
CnS ==
  [id |-> "Cn", isSet |-> TRUE, isLinearSpace |-> TRUE,
   isNtuplesBase |-> TRUE, isFnBase |-> TRUE, field |-> "ComplexNumbers",
   dim |-> 1, dtype |-> "complex128"]

\* the n-tuples of the model are those of the data spaces above: RnS.dim
\* entries, each 0 or 1
Dim == RnS.dim
Vals == {0, 1}
Data == [1..Dim -> Vals]
Zeros == [k \in 1..Dim |-> 0]

(***************************************************************************)
(* Operators handed in as restr / ext: None, an object that is no Operator,*)
(* or an Operator with domain, range, linearity and an optional `order`    *)
(* attribute ("noattr" when the operator has none).                        *)
(***************************************************************************)
None ==
  [tag |-> "None", domain |-> Obj, range |-> Obj, isLinear |-> FALSE,
   order |-> "noattr"]
NotOp ==
  [tag |-> "object", domain |-> Obj, range |-> Obj, isLinear |-> FALSE,
   order |-> "noattr"]
MkOp(dom, ran, lin, ord) ==
  [tag |-> "Operator", domain |-> dom, range |-> ran, isLinear |-> lin,
   order |-> ord]
IsOperator(op) == op.tag = "Operator"
OpOrders == {"noattr", "C", "F"}

\* operators offered as restriction of (u, d): linear with and without an
\* `order` attribute, non-linear, and one with a wrong domain and one with
\* a wrong range
RestrArgs(u, d) ==
  {None, NotOp, MkOp(u, d, TRUE, "noattr"), MkOp(u, d, TRUE, "C"),
   MkOp(u, d, FALSE, "noattr"), MkOp(d, d, TRUE, "noattr"),
   MkOp(u, u, TRUE, "noattr")}
ExtArgs(u, d) ==
  {None, NotOp, MkOp(d, u, TRUE, "noattr"), MkOp(d, u, TRUE, "F"),
   MkOp(d, u, FALSE, "noattr"), MkOp(u, u, TRUE, "noattr"),
   MkOp(d, d, TRUE, "noattr")}
\* a reduced choice for the pairs that only vary the spaces
FewRestrArgs(u, d) == {None, MkOp(u, d, TRUE, "noattr")}

OrderArgs == {"C", "F", "X"}

Args(u, d, r, e, o) ==
  [uspace |-> u, dspace |-> d, restr |-> r, ext |-> e, order |-> o]

\* constructor arguments: the full choice of operators and orders on the
\* pair (L2, Rn), and the other pairs of spaces with few operators
CtorArgs ==
  {Args(L2real, RnS, r, e, o) :
     r \in RestrArgs(L2real, RnS), e \in ExtArgs(L2real, RnS),
     o \in OrderArgs}
  \cup UNION {{Args(p[1], p[2], r, None, "C") :
                 r \in FewRestrArgs(p[1], p[2])} :
              p \in {<<L2real, CnS>>, <<SetS, RnS>>, <<L2real, NtuplesS>>,
                     <<Obj, RnS>>, <<L2real, Obj>>}}

(***************************************************************************)
(* RawDiscretization.__init__ / Discretization.__init__                    *)
(* The object under construction holds the attributes and the set of those *)
(* that have been assigned so far.  A constructor returns the              *)
(* failure (or "none"), the __init__ that raised it and the object as it   *)
(* is at that moment.  Failures carry the name of the error taxonomy:      *)
(*   InvalidSpaceType, NotAnOperator, NotLinearOperator  (TypeError)       *)
(*   InvalidOrder, DomainRangeMismatch, OrderMismatch, FieldMismatch       *)
(*                                                       (ValueError)      *)
(***************************************************************************)
NewObj ==
  [assigned |-> {}, uspace |-> Obj, dspace |-> Obj, restriction |-> None,
   extension |-> None, order |-> "-"]
Committed(obj) == obj.assigned
Outcome(err, stage, obj) == [err |-> err, stage |-> stage, obj |-> obj]

\* the checks on `restr`, in the order of the code
RestrCheck(a) ==
  IF a.restr = None THEN "none"
  ELSE IF ~IsOperator(a.restr) THEN "NotAnOperator"
  ELSE IF a.restr.domain # a.uspace THEN "DomainRangeMismatch"
  ELSE IF a.restr.range # a.dspace THEN "DomainRangeMismatch"
  ELSE IF a.restr.order # "noattr" /\ a.restr.order # a.order
         THEN "OrderMismatch"
  ELSE "none"

\* the checks on `ext` without the one on the range
ExtCheckNoRange(a) ==
  IF a.ext = None THEN "none"
  ELSE IF ~IsOperator(a.ext) THEN "NotAnOperator"
  ELSE IF a.ext.domain # a.dspace THEN "DomainRangeMismatch"
  ELSE IF a.ext.order # "noattr" /\ a.ext.order # a.order
         THEN "OrderMismatch"
  ELSE "none"
\* the checks on `ext`, in the order of the code
ExtCheck(a) ==
  IF a.ext = None THEN "none"
  ELSE IF ~IsOperator(a.ext) THEN "NotAnOperator"
  ELSE IF a.ext.domain # a.dspace THEN "DomainRangeMismatch"
  ELSE IF a.ext.range # a.uspace THEN "DomainRangeMismatch"
  ELSE IF a.ext.order # "noattr" /\ a.ext.order # a.order
         THEN "OrderMismatch"
  ELSE "none"

\* lines 152-157: the five assignments
Assign(obj, a) ==
  [assigned |-> obj.assigned \cup Attrs, uspace |-> a.uspace,
   dspace |-> a.dspace, restriction |-> a.restr, extension |-> a.ext,
   order |-> a.order]

RawInitChecks(a) ==
  IF ~a.uspace.isSet THEN "InvalidSpaceType"
  ELSE IF ~a.dspace.isNtuplesBase THEN "InvalidSpaceType"
  ELSE IF a.order \notin {"C", "F"} THEN "InvalidOrder"
  ELSE IF RestrCheck(a) # "none" THEN RestrCheck(a)
  ELSE ExtCheck(a)

\* the assignments moved in front of the checks
RawInitAssignFirst(obj, a) ==
  Outcome(RawInitChecks(a), "RawDiscretization.__init__", Assign(obj, a))
RawInit(obj, a) ==
  IF RawInitChecks(a) # "none"
    THEN Outcome(RawInitChecks(a), "RawDiscretization.__init__", obj)
    ELSE Outcome("none", "RawDiscretization.__init__", Assign(obj, a))

\* lines 370-391: the checks Discretization adds, after super().__init__
DiscrChecks(a) ==
  IF ~a.uspace.isLinearSpace THEN "InvalidSpaceType"
  ELSE IF ~a.dspace.isFnBase THEN "InvalidSpaceType"
  ELSE IF a.uspace.field # a.dspace.field THEN "FieldMismatch"
  ELSE IF a.restr # None /\ ~a.restr.isLinear THEN "NotLinearOperator"
  ELSE IF a.ext # None /\ ~a.ext.isLinear THEN "NotLinearOperator"
  ELSE "none"

DiscrInit(obj, a) ==
  LET raw == RawInit(obj, a) IN
  IF raw.err # "none" THEN raw
  ELSE Outcome(DiscrChecks(a), "Discretization.__init__", raw.obj)

MkDisc(kind, obj) ==
  [kind |-> kind, uspace |-> obj.uspace, dspace |-> obj.dspace,
   restriction |-> obj.restriction, extension |-> obj.extension,
   order |-> obj.order]
NoDisc == MkDisc("NoDisc", NewObj)

\* inputs of element(): None, an n-tuple (by reference), an element of a
\* function space (by its values at the sample points) or a nested
\* sequence (by rows)
NoneInp == [tag |-> "None", ref |-> 0, space |-> "-", f |-> Zeros, arr |-> <<>>]
TupleInp(r) ==
  [tag |-> "ntuple", ref |-> r, space |-> "-", f |-> Zeros, arr |-> <<>>]
FnInp(space, f) ==
  [tag |-> "fn", ref |-> 0, space |-> space.id, f |-> f, arr |-> <<>>]
ArrInp(arr) ==
  [tag |-> "array", ref |-> 0, space |-> "-", f |-> Zeros, arr |-> arr]
NoInp == [tag |-> "-", ref |-> 0, space |-> "-", f |-> Zeros, arr |-> <<>>]

(***************************************************************************)
(* The record of the last call: operation, receivers, failure, result, and *)
(* the observations the properties need.                                   *)
(***************************************************************************)
\* the arguments of DiscreteL2 and l2_uniform_discretization: the space and
\* the type of its domain, the number of samples, the interpolation, the
\* backend, the keywords order and dtype ("absent" / "None" when not
\* given), the data space handed to DiscreteL2 directly, and whether the
\* operators built expose the order they were given as an attribute
L2Args(l2space, dom, n, interp, impl, order, dtype, dspace, exposes) ==
  [l2space |-> l2space, domain |-> dom, nsamples |-> n,
   interp |-> interp, impl |-> impl, order |-> order, dtype |-> dtype,
   dspace |-> dspace, exposes |-> exposes]
NoL2Args ==
  L2Args(Obj, "-", 0, "-", "-", "absent", "None", Obj, FALSE)

\* the second operand of a two-input operation: an object, by its position
\* among the objects, or a scalar
ObjArg(i) == [obj |-> i, val |-> 0]
Scalar(v) == [obj |-> 0, val |-> v]
NoArg == [obj |-> 0, val |-> -1]

NoCall ==
  [op |-> "none", a |-> "-", b |-> "-", err |-> "none", ret |-> "-",
   stage |-> "-", committed |-> {}, path |-> "-", tests |-> <<>>,
   inp |-> NoInp, applied |-> FALSE, made |-> <<>>, l2 |-> NoL2Args,
   n_in |-> 0, n_out |-> 0, elem |-> 0, x2 |-> NoArg, outs |-> <<>>,
   rets |-> <<>>, scalar |-> -1, spaces |-> 0, passed |-> <<>>,
   created |-> 0]

Construct(slot, kind, out) ==
  /\ discs[slot] = NoDisc
  /\ discs' = IF out.err = "none"
                THEN [discs EXCEPT ![slot] = MkDisc(kind, out.obj)]
                ELSE discs
  /\ last' = [NoCall EXCEPT !.op = kind, !.a = slot, !.err = out.err,
                            !.stage = out.stage,
                            !.committed = Committed(out.obj)]
  /\ UNCHANGED <<generated, objs, cuda, heap, elems, origin>>

NewRawDiscretization(slot, a) ==
  Construct(slot, "RawDiscretization", RawInit(NewObj, a))

NewDiscretization(slot, a) ==
  Construct(slot, "Discretization", DiscrInit(NewObj, a))

(***************************************************************************)
(* The properties `restriction` and `extension` (lines 174-188): the       *)
(* operator, or NotImplementedError when none was given.                   *)
(***************************************************************************)
RestrictionErr(d) ==
  IF d.restriction # None THEN "none" ELSE "RestrictionUnavailable"
ExtensionErr(d) ==
  IF d.extension # None THEN "none" ELSE "ExtensionUnavailable"

\* NtuplesBase.equals, the super().equals of line 235: dimension and dtype,
\* both taken from the data space by super().__init__(dspace.dim,
\* dspace.dtype)
SuperEquals(self, other) ==
  /\ other.dspace.dim = self.dspace.dim
  /\ other.dspace.dtype = self.dspace.dtype

Result(err, ret) == [err |-> err, ret |-> ret]

\* RawDiscretization.equals (lines 235-239): a chain of `and`, evaluated
\* left to right and cut at the first false operand; in each comparison the
\* attribute of `other` is read before the one of `self`
Equals(self, other) ==
  IF ~SuperEquals(self, other) THEN Result("none", "False")
  ELSE IF other.uspace # self.uspace THEN Result("none", "False")
  ELSE IF other.dspace # self.dspace THEN Result("none", "False")
  ELSE IF RestrictionErr(other) # "none"
         THEN Result(RestrictionErr(other), "-")
  ELSE IF RestrictionErr(self) # "none"
         THEN Result(RestrictionErr(self), "-")
  ELSE IF other.restriction # self.restriction THEN Result("none", "False")
  ELSE IF ExtensionErr(other) # "none"
         THEN Result(ExtensionErr(other), "-")
  ELSE IF ExtensionErr(self) # "none"
         THEN Result(ExtensionErr(self), "-")
  ELSE IF other.extension # self.extension THEN Result("none", "False")
  ELSE Result("none", "True")

\* discs[a].equals(discs[b])
EqualsCall(a, b) ==
  /\ discs[a] # NoDisc
  /\ discs[b] # NoDisc
  /\ LET r == Equals(discs[a], discs[b]) IN
       last' = [NoCall EXCEPT !.op = "equals", !.a = a, !.b = b,
                              !.err = r.err, !.ret = r.ret]
  /\ UNCHANGED <<generated, objs, cuda, discs, heap, elems, origin>>

(***************************************************************************)
(* dspace_type (lines 436-470)                                             *)
(***************************************************************************)
\* a linear space over a field that is neither RealNumbers nor
\* ComplexNumbers
ZS ==
  [id |-> "Zspace", isSet |-> TRUE, isLinearSpace |-> TRUE,
   isNtuplesBase |-> FALSE, isFnBase |-> FALSE, field |-> "Integers",
   dim |-> 0, dtype |-> "none"]

Impls == {"numpy", "cuda", "opencl"}
TemplateSpaces == {SetS, L2real, NtuplesS, RnS, CnS, ZS}

\* the keys of the inner dictionaries of spacetype_map
FieldKeys == {"RealNumbers", "ComplexNumbers", "nofield"}

\* spacetype_map (lines 459-462); the Cuda names are bound to None when the
\* import of odl.space.cuda failed (lines 37-43)
spacetype_map(avail) ==
  [impl \in {"numpy", "cuda"} |->
     IF impl = "numpy"
       THEN [k \in FieldKeys |->
               CASE k = "RealNumbers" -> "Rn"
                 [] k = "ComplexNumbers" -> "Cn"
                 [] OTHER -> "Ntuples"]
       ELSE [k \in FieldKeys |->
               CASE k = "RealNumbers" -> IF avail THEN "CudaRn" ELSE "None"
                 [] k = "ComplexNumbers" -> "None"
                 [] OTHER -> IF avail THEN "CudaNtuples" ELSE "None"]]

\* field_type of line 464: hasattr(space, 'field') and type(space.field)
field_type(space) == space.field

\* the availability test moved behind the table lookup
dspace_type_lookup_first(space, impl, avail) ==
  IF impl \notin {"numpy", "cuda"} THEN Result("UnsupportedBackend", "-")
  ELSE IF field_type(space) \notin FieldKeys THEN Result("KeyError", "-")
  ELSE IF spacetype_map(avail)[impl][field_type(space)] = "None"
         THEN Result("UnsupportedFieldForBackend", "-")
  ELSE IF impl = "cuda" /\ ~avail THEN Result("BackendUnavailable", "-")
  ELSE Result("none", spacetype_map(avail)[impl][field_type(space)])
dspace_type(space, impl, avail) ==
  IF impl \notin {"numpy", "cuda"} THEN Result("UnsupportedBackend", "-")
  ELSE IF impl = "cuda" /\ ~avail THEN Result("BackendUnavailable", "-")
  ELSE IF field_type(space) \notin FieldKeys THEN Result("KeyError", "-")
  ELSE IF spacetype_map(avail)[impl][field_type(space)] = "None"
         THEN Result("UnsupportedFieldForBackend", "-")
  ELSE Result("none", spacetype_map(avail)[impl][field_type(space)])

DspaceTypeCall(space, impl) ==
  /\ LET r == dspace_type(space, impl, cuda) IN
       last' = [NoCall EXCEPT !.op = "dspace_type", !.a = impl,
                              !.b = space.field, !.err = r.err,
                              !.ret = r.ret]
  /\ UNCHANGED <<generated, objs, cuda, discs, heap, elems, origin>>

(***************************************************************************)
(* odl/discr/default.py: DiscreteL2 and l2_uniform_discretization.  The    *)
(* outcome of a call carries, next to the failure and the object, the      *)
(* objects created on the way, in the order of their creation.             *)
(***************************************************************************)
L2complex ==
  [id |-> "L2complex", isSet |-> TRUE, isLinearSpace |-> TRUE,
   isNtuplesBase |-> FALSE, isFnBase |-> FALSE, field |-> "ComplexNumbers",
   dim |-> 0, dtype |-> "none"]

\* isinstance(l2space, L2)
IsL2(space) == space.id \in {"L2", "L2complex"}

supported_interp == {"nearest"}

L2Out(err, stage, obj, made) ==
  [err |-> err, stage |-> stage, obj |-> obj, made |-> made]

\* kwargs.pop('order', 'C')
PopOrder(a) == IF a.order = "absent" THEN "C" ELSE a.order

\* the operators of odl.discr.operators: linear, between the function space
\* and the data space, built with the keyword order
GridCollocation(l2space, grid, dspace, order, exposes) ==
  MkOp(l2space, dspace, TRUE, IF exposes THEN order ELSE "noattr")
NearestInterpolation(l2space, grid, dspace, order, exposes) ==
  MkOp(dspace, l2space, TRUE, IF exposes THEN order ELSE "noattr")

\* DiscreteL2.__init__ (lines 67-83); super().__init__ is called without
\* the keyword order, which Discretization then takes as 'C'
DiscreteL2Init(obj, a, grid, dspace) ==
  IF ~IsL2(a.l2space)
    THEN L2Out("InvalidSpaceType", "DiscreteL2.__init__", obj, <<>>)
  ELSE IF a.interp \notin supported_interp
    THEN L2Out("UnsupportedInterpolation", "DiscreteL2.__init__", obj, <<>>)
  ELSE LET order == PopOrder(a)
           restriction ==
             GridCollocation(a.l2space, grid, dspace, order, a.exposes)
       IN IF a.interp = "nearest"
            THEN LET extension ==
                       NearestInterpolation(a.l2space, grid, dspace, order,
                                            a.exposes)
                     sup == DiscrInit(obj, Args(a.l2space, dspace,
                                                restriction, extension, "C"))
                 IN L2Out(sup.err, sup.stage, sup.obj,
                          IF sup.err = "none"
                            THEN <<"restriction", "extension",
                                   "discretization">>
                            ELSE <<"restriction", "extension">>)
            ELSE L2Out("NotImplemented", "DiscreteL2.__init__", obj,
                       <<"restriction">>)

\* l2space.domain.uniform_sampling(nsamples, as_midp=True) on an interval:
\* a grid of nsamples points
uniform_sampling(nsamples) == [ntotal |-> nsamples]

\* ds_type(n) and ds_type(n, dtype=dtype): the data space of the type
\* chosen, with n entries and the dtype given or the default of the type
DefaultDtype(stype) ==
  CASE stype = "Rn" -> "float64"
    [] stype = "Cn" -> "complex128"
    [] stype = "CudaRn" -> "float32"
    [] OTHER -> "int"
MkDspace(stype, n, dtype) ==
  LET base == CASE stype \in {"Rn", "CudaRn"} -> RnS
                [] stype = "Cn" -> CnS
                [] OTHER -> NtuplesS
  IN [base EXCEPT !.id = stype, !.dim = n,
                  !.dtype = IF dtype = "None" THEN DefaultDtype(stype)
                                              ELSE dtype]

\* the grid built in front of the choice of the data space type
l2_uniform_discretization_grid_first(obj, a, avail) ==
  IF ~IsL2(a.l2space)
    THEN L2Out("InvalidSpaceType", "l2_uniform_discretization", obj, <<>>)
  ELSE IF a.domain # "IntervalProd"
    THEN L2Out("InvalidDomainType", "l2_uniform_discretization", obj, <<>>)
  ELSE LET grid == uniform_sampling(a.nsamples)
           ds == dspace_type(a.l2space, a.impl, avail)
       IN IF ds.err # "none"
            THEN L2Out(ds.err, "dspace_type", obj, <<"grid">>)
            ELSE LET dspace == MkDspace(ds.ret, grid.ntotal, a.dtype)
                     r == DiscreteL2Init(obj, a, grid, dspace)
                 IN [r EXCEPT !.made = <<"grid", "dspace">> \o r.made]
l2_uniform_discretization(obj, a, avail) ==
  IF ~IsL2(a.l2space)
    THEN L2Out("InvalidSpaceType", "l2_uniform_discretization", obj, <<>>)
  ELSE IF a.domain # "IntervalProd"
    THEN L2Out("InvalidDomainType", "l2_uniform_discretization", obj, <<>>)
  ELSE LET ds == dspace_type(a.l2space, a.impl, avail) IN
       IF ds.err # "none"
         THEN L2Out(ds.err, "dspace_type", obj, <<>>)
         ELSE LET grid == uniform_sampling(a.nsamples)
                  dspace == MkDspace(ds.ret, grid.ntotal, a.dtype)
                  r == DiscreteL2Init(obj, a, grid, dspace)
              IN [r EXCEPT !.made = <<"grid", "dspace">> \o r.made]

L2Construct(slot, op, a, out) ==
  /\ discs[slot] = NoDisc
  /\ discs' = IF out.err = "none"
                THEN [discs EXCEPT ![slot] = MkDisc("DiscreteL2", out.obj)]
                ELSE discs
  /\ last' = [NoCall EXCEPT !.op = op, !.a = slot, !.err = out.err,
                            !.stage = out.stage,
                            !.committed = Committed(out.obj),
                            !.made = out.made, !.l2 = a]
  /\ UNCHANGED <<generated, objs, cuda, heap, elems, origin>>

NewDiscreteL2(slot, a) ==
  L2Construct(slot, "DiscreteL2", a,
              DiscreteL2Init(NewObj, a, [ntotal |-> a.dspace.dim], a.dspace))

L2UniformDiscretization(slot, a) ==
  L2Construct(slot, "l2_uniform_discretization", a,
              l2_uniform_discretization(NewObj, a, cuda))

(***************************************************************************)
(* Data containers.  heap[r] is the n-tuple held under reference r: the    *)
(* data space it belongs to and its entries.  A Vector holds the reference *)
(* of its n-tuple, as self._ntuple does.                                   *)
(***************************************************************************)
NoTuple == [alloc |-> FALSE, space |-> "-", data |-> Zeros]
MkTuple(space, data) == [alloc |-> TRUE, space |-> space.id, data |-> data]

FreeRefs(h) == {r \in Refs : ~h[r].alloc}
NextRef(h) == CHOOSE r \in FreeRefs(h) : \A q \in FreeRefs(h) : r <= q

ArrayArgs ==
  {<<<<1>>>>, <<<<0, 1>>>>, <<<<1>>, <<0>>>>, <<<<0, 1>>, <<0, 1>>>>}

\* `inp in space` for the spaces of the model: an n-tuple belongs to the
\* data space it was made by, a function to its function space
Contains(space, inp, h) ==
  CASE inp.tag = "ntuple" -> h[inp.ref].space = space.id
    [] inp.tag = "fn" -> inp.space = space.id
    [] OTHER -> FALSE

\* the values the restriction operator produces for a member of uspace
Restrict(inp, h) ==
  IF inp.tag = "ntuple" THEN h[inp.ref].data ELSE inp.f

\* np.asarray(inp).reshape(-1, order=order) for a nested sequence of rows
Reshape(arr, order) ==
  IF Len(arr) = 0 THEN <<>>
  ELSE LET rows == Len(arr)
           cols == Len(arr[1])
       IN IF order = "C"
            THEN [k \in 1..(rows * cols) |->
                    arr[((k - 1) \div cols) + 1][((k - 1) % cols) + 1]]
            ELSE [k \in 1..(rows * cols) |->
                    arr[((k - 1) % rows) + 1][((k - 1) \div rows) + 1]]

\* np.asarray(inp): the rows of a nested sequence, the entries of an
\* n-tuple as one row; a function has no array form
AsArray(inp, h) ==
  CASE inp.tag = "array" -> inp.arr
    [] inp.tag = "ntuple" -> <<h[inp.ref].data>>
    [] OTHER -> <<>>

\* lines 220-221: the flat array handed to dspace.element
Coerce(d, inp, h) == Reshape(AsArray(inp, h), d.order)

(***************************************************************************)
(* RawDiscretization.element (lines 212-222).  The outcome names the       *)
(* branch taken, the membership tests evaluated on the way, whether the    *)
(* restriction operator was applied, and the n-tuple to wrap: an existing  *)
(* reference (fresh = FALSE) or new data to allocate (fresh = TRUE).       *)
(***************************************************************************)
ElemOut(err, path, tests, applied, fresh, ref, data) ==
  [err |-> err, path |-> path, tests |-> tests, applied |-> applied,
   fresh |-> fresh, ref |-> ref, data |-> data]

\* the abstract-space test in front of the data-space test
ElementUspaceFirst(d, inp, h, uninit) ==
  IF inp.tag = "None"
    THEN ElemOut("none", "none", <<>>, FALSE, TRUE, 0, uninit)
  ELSE IF Contains(d.uspace, inp, h)
    THEN IF RestrictionErr(d) # "none"
           THEN ElemOut(RestrictionErr(d), "uspace", <<"uspace">>,
                        FALSE, FALSE, 0, Zeros)
           ELSE ElemOut("none", "uspace", <<"uspace">>, TRUE, TRUE,
                        0, Restrict(inp, h))
  ELSE IF Contains(d.dspace, inp, h)
    THEN ElemOut("none", "dspace", <<"uspace", "dspace">>, FALSE, FALSE,
                 inp.ref, Zeros)
  ELSE IF Len(Coerce(d, inp, h)) # d.dspace.dim
    THEN ElemOut("CoercionError", "coerce", <<"uspace", "dspace">>, FALSE,
                 FALSE, 0, Zeros)
  ELSE ElemOut("none", "coerce", <<"uspace", "dspace">>, FALSE, TRUE, 0,
               Coerce(d, inp, h))

\* a member of the data space copied instead of wrapped
ElementCopying(d, inp, h, uninit) ==
  IF inp.tag = "None"
    THEN ElemOut("none", "none", <<>>, FALSE, TRUE, 0, uninit)
  ELSE IF Contains(d.dspace, inp, h)
    THEN ElemOut("none", "dspace", <<"dspace">>, FALSE, TRUE, 0,
                 h[inp.ref].data)
  ELSE IF Contains(d.uspace, inp, h)
    THEN IF RestrictionErr(d) # "none"
           THEN ElemOut(RestrictionErr(d), "uspace", <<"dspace", "uspace">>,
                        FALSE, FALSE, 0, Zeros)
           ELSE ElemOut("none", "uspace", <<"dspace", "uspace">>, TRUE, TRUE,
                        0, Restrict(inp, h))
  ELSE IF Len(Coerce(d, inp, h)) # d.dspace.dim
    THEN ElemOut("CoercionError", "coerce", <<"dspace", "uspace">>, FALSE,
                 FALSE, 0, Zeros)
  ELSE ElemOut("none", "coerce", <<"dspace", "uspace">>, FALSE, TRUE, 0,
               Coerce(d, inp, h))

\* a missing restriction falling through to the coercion branch
ElementFallThrough(d, inp, h, uninit) ==
  IF inp.tag = "None"
    THEN ElemOut("none", "none", <<>>, FALSE, TRUE, 0, uninit)
  ELSE IF Contains(d.dspace, inp, h)
    THEN ElemOut("none", "dspace", <<"dspace">>, FALSE, FALSE, inp.ref,
                 Zeros)
  ELSE IF Contains(d.uspace, inp, h) /\ RestrictionErr(d) = "none"
    THEN ElemOut("none", "uspace", <<"dspace", "uspace">>, TRUE, TRUE,
                 0, Restrict(inp, h))
  ELSE IF inp.tag = "fn"
    THEN ElemOut("none", "coerce", <<"dspace", "uspace">>, FALSE, TRUE, 0,
                 inp.f)
  ELSE IF Len(Coerce(d, inp, h)) # d.dspace.dim
    THEN ElemOut("CoercionError", "coerce", <<"dspace", "uspace">>, FALSE,
                 FALSE, 0, Zeros)
  ELSE ElemOut("none", "coerce", <<"dspace", "uspace">>, FALSE, TRUE, 0,
               Coerce(d, inp, h))

Element(d, inp, h, uninit) ==
  IF inp.tag = "None"
    THEN ElemOut("none", "none", <<>>, FALSE, TRUE, 0, uninit)
  ELSE IF Contains(d.dspace, inp, h)
    THEN ElemOut("none", "dspace", <<"dspace">>, FALSE, FALSE, inp.ref,
                 Zeros)
  ELSE IF Contains(d.uspace, inp, h)
    THEN IF RestrictionErr(d) # "none"
           THEN ElemOut(RestrictionErr(d), "uspace", <<"dspace", "uspace">>,
                        FALSE, FALSE, 0, Zeros)
           ELSE ElemOut("none", "uspace", <<"dspace", "uspace">>, TRUE, TRUE,
                        0, Restrict(inp, h))
  ELSE IF Len(Coerce(d, inp, h)) # d.dspace.dim
    THEN ElemOut("CoercionError", "coerce", <<"dspace", "uspace">>, FALSE,
                 FALSE, 0, Zeros)
  ELSE ElemOut("none", "coerce", <<"dspace", "uspace">>, FALSE, TRUE, 0,
               Coerce(d, inp, h))

(***************************************************************************)
(* Vector objects: the discretization they belong to (its slot), the       *)
(* reference of the wrapped n-tuple and the Vector class.  origin[i]       *)
(* remembers how elems[i] came to be: `wraps` is the reference handed to   *)
(* element() when it was made from a member of the data space, `copyOf`    *)
(* the index of the Vector it is the copy() of; 0 otherwise.               *)
(***************************************************************************)
Origin(wraps, copyOf) == [wraps |-> wraps, copyOf |-> copyOf]

MkVector(slot, ref) ==
  [space |-> slot, ntuple |-> ref, type |-> discs[slot].kind]

\* Vector.asarray (line 276)
asarray(v, h) == h[v.ntuple].data

\* Vector.equals (lines 287-288)
VectorEquals(v, w, h) ==
  /\ w.type = v.type
  /\ h[w.ntuple].data = h[v.ntuple].data

\* the heap and the reference of the n-tuple a Vector is built around, for
\* an outcome of element()
Wrapped(h, d, out) ==
  IF out.fresh
    THEN [heap |-> [h EXCEPT ![NextRef(h)] = MkTuple(d.dspace, out.data)],
          ref |-> NextRef(h)]
    ELSE [heap |-> h, ref |-> out.ref]

\* discs[slot].element(inp)
ElementCall(slot, inp, uninit) ==
  /\ discs[slot] # NoDisc
  /\ Len(elems) < MaxElems
  /\ FreeRefs(heap) # {}
  /\ inp.tag = "ntuple" => heap[inp.ref].alloc
  /\ LET r == Element(discs[slot], inp, heap, uninit)
         w == Wrapped(heap, discs[slot], r)
     IN IF r.err = "none"
          THEN /\ heap' = w.heap
               /\ elems' = Append(elems, MkVector(slot, w.ref))
               /\ origin' = Append(origin,
                                   IF r.path = "dspace"
                                     THEN Origin(inp.ref, 0)
                                     ELSE Origin(0, 0))
               /\ last' = [NoCall EXCEPT !.op = "element", !.a = slot,
                                         !.path = r.path, !.tests = r.tests,
                                         !.inp = inp, !.applied = r.applied]
          ELSE /\ last' = [NoCall EXCEPT !.op = "element", !.a = slot,
                                         !.err = r.err, !.path = r.path,
                                         !.tests = r.tests, !.inp = inp,
                                         !.applied = r.applied]
               /\ UNCHANGED <<heap, elems, origin>>
  /\ UNCHANGED <<generated, objs, cuda, discs>>

\* dspace.element(data) of the environment: a new n-tuple of the data space
\* of discs[slot], not wrapped by any Vector
NewNtuple(slot, data) ==
  /\ discs[slot] # NoDisc
  /\ FreeRefs(heap) # {}
  /\ heap' = [heap EXCEPT
                ![NextRef(heap)] = MkTuple(discs[slot].dspace, data)]
  /\ last' = [NoCall EXCEPT !.op = "dspace.element", !.a = slot]
  /\ UNCHANGED <<generated, objs, cuda, discs, elems, origin>>

\* copy() without the copy of the n-tuple
CopyAliasing(i, h) ==
  [heap |-> h,
   out |-> Element(discs[elems[i].space], TupleInp(elems[i].ntuple), h, Zeros)]
\* Vector.copy (line 272): self.space.element(self.ntuple.copy())
Copy(i, h) ==
  LET c == NextRef(h)
      h1 == [h EXCEPT ![c] = h[elems[i].ntuple]]
  IN [heap |-> h1,
      out |-> Element(discs[elems[i].space], TupleInp(c), h1, Zeros)]

\* elems[i].copy()
CopyCall(i) ==
  /\ i \in 1..Len(elems)
  /\ Len(elems) < MaxElems
  /\ FreeRefs(heap) # {}
  /\ LET r == Copy(i, heap) IN
       /\ r.out.fresh => FreeRefs(r.heap) # {}
       /\ LET w == Wrapped(r.heap, discs[elems[i].space], r.out) IN
            /\ heap' = w.heap
            /\ elems' = Append(elems, MkVector(elems[i].space, w.ref))
       /\ origin' = Append(origin, Origin(0, i))
       /\ last' = [NoCall EXCEPT !.op = "copy", !.a = elems[i].space,
                                 !.path = r.out.path]
  /\ UNCHANGED <<generated, objs, cuda, discs>>

\* Vector.__setitem__ (lines 321-324) with an integer index and a scalar
SetItem(h, v, k, x) ==
  [h EXCEPT ![v.ntuple].data[k] = x]

\* Vector.__setitem__ with the full slice and another Vector, which is
\* unwrapped to its n-tuple; the n-tuple copies the entries
SetSlice(h, v, w) ==
  [h EXCEPT ![v.ntuple].data = h[w.ntuple].data]

\* elems[i][k] = x
SetItemCall(i, k, x) ==
  /\ i \in 1..Len(elems)
  /\ heap' = SetItem(heap, elems[i], k, x)
  /\ last' = [NoCall EXCEPT !.op = "setitem", !.a = elems[i].space]
  /\ UNCHANGED <<generated, objs, cuda, discs, elems, origin>>

\* elems[i][:] = elems[j]
SetSliceCall(i, j) ==
  /\ i \in 1..Len(elems)
  /\ j \in 1..Len(elems)
  /\ heap' = SetSlice(heap, elems[i], elems[j])
  /\ last' = [NoCall EXCEPT !.op = "setslice", !.a = elems[i].space]
  /\ UNCHANGED <<generated, objs, cuda, discs, elems, origin>>

\* elems[i].equals(elems[j])
VectorEqualsCall(i, j) ==
  /\ i \in 1..Len(elems)
  /\ j \in 1..Len(elems)
  /\ last' = [NoCall EXCEPT
                !.op = "Vector.equals", !.a = elems[i].space,
                !.ret = IF VectorEquals(elems[i], elems[j], heap)
                          THEN "True" ELSE "False"]
  /\ UNCHANGED <<generated, objs, cuda, discs, heap, elems, origin>>

(***************************************************************************)
(* The linear primitives of Discretization (lines 394-422), passed through *)
(* to the data space on the unwrapped n-tuples.                            *)
(***************************************************************************)
\* zero()
ZeroCall(slot) ==
  /\ discs[slot].kind = "Discretization"
  /\ Len(elems) < MaxElems
  /\ FreeRefs(heap) # {}
  /\ heap' = [heap EXCEPT
                ![NextRef(heap)] = MkTuple(discs[slot].dspace, Zeros)]
  /\ elems' = Append(elems, MkVector(slot, NextRef(heap)))
  /\ origin' = Append(origin, Origin(0, 0))
  /\ last' = [NoCall EXCEPT !.op = "zero", !.a = slot]
  /\ UNCHANGED <<generated, objs, cuda, discs>>

\* _lincomb: z.ntuple := a * x.ntuple + b * y.ntuple
Lincomb(h, z, a, x, b, y) ==
  [h EXCEPT ![z.ntuple].data =
     [k \in 1..Dim |-> a * h[x.ntuple].data[k] + b * h[y.ntuple].data[k]]]

\* _multiply: z.ntuple := x.ntuple * y.ntuple, entry by entry
Multiply(h, z, x, y) ==
  [h EXCEPT ![z.ntuple].data =
     [k \in 1..Dim |-> h[x.ntuple].data[k] * h[y.ntuple].data[k]]]

IsLinear(i) == i \in 1..Len(elems) /\ elems[i].type = "Discretization"

LincombCall(z, a, x, b, y) ==
  /\ IsLinear(z) /\ IsLinear(x) /\ IsLinear(y)
  /\ \A k \in 1..Dim :
       Lincomb(heap, elems[z], a, elems[x], b, elems[y])[elems[z].ntuple]
         .data[k] \in Vals
  /\ heap' = Lincomb(heap, elems[z], a, elems[x], b, elems[y])
  /\ last' = [NoCall EXCEPT !.op = "lincomb", !.a = elems[z].space]
  /\ UNCHANGED <<generated, objs, cuda, discs, elems, origin>>

MultiplyCall(z, x, y) ==
  /\ IsLinear(z) /\ IsLinear(x) /\ IsLinear(y)
  /\ \A k \in 1..Dim :
       Multiply(heap, elems[z], elems[x], elems[y])[elems[z].ntuple]
         .data[k] \in Vals
  /\ heap' = Multiply(heap, elems[z], elems[x], elems[y])
  /\ last' = [NoCall EXCEPT !.op = "multiply", !.a = elems[z].space]
  /\ UNCHANGED <<generated, objs, cuda, discs, elems, origin>>

(***************************************************************************)
(* odl/util/ufuncs.py: the catalog of operations and the generation of the *)
(* methods of the three ufunc classes.  generated[f] holds the names for   *)
(* which the loop of family f has produced a method so far.                *)
(***************************************************************************)
discvars == <<cuda, discs, heap, elems, origin>>

RAW_UFUNCS ==
  <<"absolute", "add", "arccos", "arccosh", "arcsin", "arcsinh",
    "arctan", "arctan2", "arctanh", "bitwise_and", "bitwise_or",
    "bitwise_xor", "ceil", "conj", "copysign", "cos", "cosh",
    "deg2rad", "divide", "equal", "exp", "exp2", "expm1", "floor",
    "floor_divide", "fmax", "fmin", "fmod", "greater",
    "greater_equal", "hypot", "invert", "isfinite", "isinf", "isnan",
    "left_shift", "less", "less_equal", "log", "log10", "log1p",
    "log2", "logaddexp", "logaddexp2", "logical_and", "logical_not",
    "logical_or", "logical_xor", "maximum", "minimum", "mod", "modf",
    "multiply", "negative", "not_equal", "power",
    "rad2deg", "reciprocal", "remainder", "right_shift", "rint",
    "sign", "signbit", "sin", "sinh", "sqrt", "square", "subtract",
    "tan", "tanh", "true_divide", "trunc">>

\* ufunc.nin and ufunc.nout of the numpy functions of these names
TwoInputs ==
  {"add", "arctan2", "bitwise_and", "bitwise_or", "bitwise_xor",
   "copysign", "divide", "equal", "floor_divide", "fmax", "fmin", "fmod",
   "greater", "greater_equal", "hypot", "left_shift", "less", "less_equal",
   "logaddexp", "logaddexp2", "logical_and", "logical_or", "logical_xor",
   "maximum", "minimum", "mod", "multiply", "not_equal", "power",
   "remainder", "right_shift", "subtract", "true_divide"}
nin(name) == IF name \in TwoInputs THEN 2 ELSE 1
nout(name) == IF name = "modf" THEN 2 ELSE 1

\* lines 56-69
UFUNCS ==
  [i \in 1..Len(RAW_UFUNCS) |->
     [name |-> RAW_UFUNCS[i], n_in |-> nin(RAW_UFUNCS[i]),
      n_out |-> nout(RAW_UFUNCS[i])]]

Families == <<"base", "discretelp", "productspace">>
NoneGenerated == [f \in 1..Len(Families) |-> {}]

\* the result of a generator: the kind of wrapper built, named by its
\* arity, or the failure
Wrapper(n_in, n_out) == [err |-> "none", n_in |-> n_in, n_out |-> n_out]
NoWrapper == [err |-> "UnsupportedArity", n_in |-> 0, n_out |-> 0]

\* wrap_ufunc_base without the branch for two outputs
wrap_ufunc_base_one_output(n_in, n_out) ==
  IF n_in = 1
    THEN IF n_out = 1 THEN Wrapper(1, 1) ELSE NoWrapper
  ELSE IF n_in = 2
    THEN IF n_out = 1 THEN Wrapper(2, 1) ELSE NoWrapper
  ELSE NoWrapper
wrap_ufunc_base(n_in, n_out) ==
  IF n_in = 1
    THEN IF n_out = 1 THEN Wrapper(1, 1)
         ELSE IF n_out = 2 THEN Wrapper(1, 2)
         ELSE NoWrapper
  ELSE IF n_in = 2
    THEN IF n_out = 1 THEN Wrapper(2, 1) ELSE NoWrapper
  ELSE NoWrapper

wrap_ufunc_discretelp(n_in, n_out) ==
  IF n_in = 1
    THEN IF n_out = 0 THEN Wrapper(1, 0)
         ELSE IF n_out = 1 THEN Wrapper(1, 1)
         ELSE IF n_out = 2 THEN Wrapper(1, 2)
         ELSE NoWrapper
  ELSE IF n_in = 2
    THEN IF n_out = 1 THEN Wrapper(2, 1) ELSE NoWrapper
  ELSE NoWrapper

wrap_ufunc_productspace(n_in, n_out) ==
  IF n_in = 1
    THEN IF n_out = 0 THEN Wrapper(1, 0)
         ELSE IF n_out = 1 THEN Wrapper(1, 1)
         ELSE IF n_out = 2 THEN Wrapper(1, 2)
         ELSE NoWrapper
  ELSE IF n_in = 2
    THEN IF n_out = 1 THEN Wrapper(2, 1) ELSE NoWrapper
  ELSE NoWrapper

Generator(f, n_in, n_out) ==
  CASE Families[f] = "base" -> wrap_ufunc_base(n_in, n_out)
    [] Families[f] = "discretelp" -> wrap_ufunc_discretelp(n_in, n_out)
    [] OTHER -> wrap_ufunc_productspace(n_in, n_out)
GeneratorName(f) ==
  CASE Families[f] = "base" -> "wrap_ufunc_base"
    [] Families[f] = "discretelp" -> "wrap_ufunc_discretelp"
    [] OTHER -> "wrap_ufunc_productspace"

\* a family's loop has run through the catalog
Complete(f) == Cardinality(generated[f]) = Len(UFUNCS)

\* one iteration of `for name, n_in, n_out, doc in UFUNCS` of family f
\* (lines 175-177, 297-299, 383-385): the loops run in the order of the
\* module, and a failure of the generator ends the import
GenerateNext(f) ==
  /\ \A g \in 1..(f - 1) : Complete(g)
  /\ ~Complete(f)
  /\ ~(last.op = "import" /\ last.err # "none")
  /\ LET u == UFUNCS[Cardinality(generated[f]) + 1]
         w == Generator(f, u.n_in, u.n_out)
     IN /\ generated' = IF w.err = "none"
                          THEN [generated EXCEPT ![f] = @ \cup {u.name}]
                          ELSE generated
        /\ last' = [NoCall EXCEPT !.op = "import", !.a = GeneratorName(f),
                                  !.b = u.name, !.err = w.err,
                                  !.n_in = u.n_in, !.n_out = u.n_out]
  /\ UNCHANGED <<objs, discvars>>

\* a call of a generator with arbitrary arities
WrapCall(f, n_in, n_out) ==
  /\ LET w == Generator(f, n_in, n_out) IN
       last' = [NoCall EXCEPT !.op = GeneratorName(f), !.err = w.err,
                              !.n_in = n_in, !.n_out = n_out,
                              !.ret = IF w.err = "none" THEN "wrapper"
                                                        ELSE "-"]
  /\ UNCHANGED <<generated, objs, discvars>>

(***************************************************************************)
(* The elements the ufunc classes act on.  objs is the sequence of the     *)
(* objects created so far and an object is known by its position in it.    *)
(* A tensor has a space and its entries in row-major order; a space has    *)
(* the class that constructs it, shape, dtype, order, exponent ("None"     *)
(* when it has no such attribute) and weighting.                           *)
(***************************************************************************)
Weighting(kind, exponent) == [kind |-> kind, exponent |-> exponent]
NoWeightingAttr == Weighting("None", "None")

TSpace(cls, shape, dtype, order, exponent, weighting) ==
  [cls |-> cls, shape |-> shape, dtype |-> dtype, order |-> order,
   exponent |-> exponent, weighting |-> weighting]

MkObj(kind, space, data, tensor, comps) ==
  [kind |-> kind, space |-> space, data |-> data, tensor |-> tensor,
   comps |-> comps]
Tensor(space, data) == MkObj("tensor", space, data, 0, <<>>)

\* the reduction `name` of the entries of a sequence: np.sum, and np.max
\* for the other name
RECURSIVE Fold(_, _)
Fold(name, seq) ==
  IF Len(seq) = 1 THEN seq[1]
  ELSE LET rest == Fold(name, Tail(seq)) IN
       IF name = "sum" THEN seq[1] + rest
       ELSE IF seq[1] >= rest THEN seq[1] ELSE rest

\* shape and entries of wrapped(elem, axis=axis, keepdims=keepdims) for a
\* tensor of one or two axes; shape <<>> is a scalar, and an axis the
\* tensor does not have is an error of numpy
Reduce(name, shape, data, axis, keepdims) ==
  IF axis = "1" /\ Len(shape) = 1
    THEN [err |-> "AxisError", shape |-> <<>>, data |-> <<>>]
  ELSE IF axis = "None" \/ Len(shape) = 1
    THEN [err |-> "none",
          shape |-> IF keepdims THEN [k \in 1..Len(shape) |-> 1] ELSE <<>>,
          data |-> <<Fold(name, data)>>]
  ELSE LET r == shape[1]
           c == shape[2]
       IN IF axis = "0"
            THEN [err |-> "none",
                  shape |-> IF keepdims THEN <<1, c>> ELSE <<c>>,
                  data |-> [k \in 1..c |->
                              Fold(name, [i \in 1..r |->
                                            data[(i - 1) * c + k]])]]
            ELSE [err |-> "none",
                  shape |-> IF keepdims THEN <<r, 1>> ELSE <<r>>,
                  data |-> [i \in 1..r |->
                              Fold(name, [k \in 1..c |->
                                            data[(i - 1) * c + k]])]]

\* the outcome of a call on the objects h: the failure, the objects after
\* the call, the objects returned (by position), the scalar returned, and
\* the number of spaces constructed
CallOut(err, h, ret, scalar, spaces) ==
  [err |-> err, objs |-> h, ret |-> ret, scalar |-> scalar,
   spaces |-> spaces]

\* lines 211-219: the keywords for the constructor of the result space
ExtraWeighting(space) ==
  IF space.weighting.kind = "None" THEN NoWeightingAttr
  ELSE IF space.weighting.kind = "array"
    THEN Weighting("no", space.exponent)
  ELSE space.weighting

\* the weighting handed on as it is
wrap_reduction_numpy_keep_weighting(name, h, e, axis, out, keepdims, dtype) ==
  LET red == Reduce(name, h[e].space.shape, h[e].data, axis, keepdims)
      out_space == TSpace(h[e].space.cls, red.shape, dtype, h[e].space.order,
                          h[e].space.exponent, h[e].space.weighting)
  IN IF red.err # "none" THEN CallOut(red.err, h, <<>>, -1, 0)
     ELSE IF out = 0
       THEN IF red.shape = <<>>
              THEN CallOut("none", h, <<>>, red.data[1], 0)
              ELSE CallOut("none", Append(h, Tensor(out_space, red.data)),
                           <<Len(h) + 1>>, -1, 1)
     ELSE IF h[out].space.shape # red.shape
       THEN CallOut("ShapeMismatch", h, <<>>, -1, 0)
     ELSE CallOut("none", [h EXCEPT ![out].data = red.data], <<out>>, -1, 0)

\* the result wrapped in a new element also when a buffer is given
wrap_reduction_numpy_ignore_out(name, h, e, axis, out, keepdims, dtype) ==
  LET red == Reduce(name, h[e].space.shape, h[e].data, axis, keepdims)
      out_space == TSpace(h[e].space.cls, red.shape, dtype, h[e].space.order,
                          h[e].space.exponent, ExtraWeighting(h[e].space))
  IN IF red.err # "none" THEN CallOut(red.err, h, <<>>, -1, 0)
     ELSE IF red.shape = <<>>
       THEN CallOut("none", h, <<>>, red.data[1], 0)
     ELSE CallOut("none", Append(h, Tensor(out_space, red.data)),
                  <<Len(h) + 1>>, -1, 1)

\* the wrapper of wrap_reduction_numpy (lines 184-226) on the tensor h[e];
\* out = 0 stands for out=None, dtype is kwargs.get('dtype', elem.dtype)
wrap_reduction_numpy(name, h, e, axis, out, keepdims, dtype) ==
  LET red == Reduce(name, h[e].space.shape, h[e].data, axis, keepdims)
      out_space == TSpace(h[e].space.cls, red.shape, dtype, h[e].space.order,
                          h[e].space.exponent, ExtraWeighting(h[e].space))
  IN IF red.err # "none" THEN CallOut(red.err, h, <<>>, -1, 0)
     ELSE IF out = 0
       THEN IF red.shape = <<>>
              THEN CallOut("none", h, <<>>, red.data[1], 0)
              ELSE CallOut("none", Append(h, Tensor(out_space, red.data)),
                           <<Len(h) + 1>>, -1, 1)
     ELSE IF h[out].space.shape # red.shape
       THEN CallOut("ShapeMismatch", h, <<>>, -1, 0)
     ELSE CallOut("none", [h EXCEPT ![out].data = red.data], <<out>>, -1, 0)

\* a tensor comes into being
NewTensor(space, data) ==
  /\ Len(objs) < MaxObjs
  /\ objs' = Append(objs, Tensor(space, data))
  /\ last' = [NoCall EXCEPT !.op = "tensor", !.rets = <<Len(objs) + 1>>]
  /\ UNCHANGED <<generated, discvars>>

\* elem.ufuncs.<name>(axis=axis, out=out, keepdims=keepdims[, dtype=dtype])
\* on the tensor e; the dtype is given only where it decides the space of
\* the result
ReductionCall(name, e, axis, out, keepdims, dtype) ==
  /\ e \in 1..Len(objs) /\ objs[e].kind = "tensor"
  /\ out \in 0..Len(objs)
  /\ out # 0 => objs[out].kind = "tensor"
  /\ out = 0 => Len(objs) < MaxObjs
  /\ out # 0 => dtype = "absent"
  /\ LET r == wrap_reduction_numpy(name, objs, e, axis, out, keepdims,
                                   IF dtype = "absent"
                                     THEN objs[e].space.dtype ELSE dtype)
     IN /\ objs' = r.objs
        /\ last' = [NoCall EXCEPT !.op = "reduction", !.a = name,
                                  !.b = axis, !.err = r.err, !.elem = e,
                                  !.outs = IF out = 0 THEN <<>> ELSE <<out>>,
                                  !.rets = r.ret, !.scalar = r.scalar,
                                  !.spaces = r.spaces]
  /\ UNCHANGED <<generated, discvars>>

(***************************************************************************)
(* DiscreteLpUfuncs.  An element of a discretized function space holds its *)
(* inner tensor, here the entries of it; the inner tensor of the element   *)
(* at position i is named by i.                                            *)
(***************************************************************************)
LpElem(space, data) == MkObj("lp", space, data, 1, <<>>)

\* the entries an operand contributes to an operation on n entries: those
\* of the object, or the scalar at every entry
OperandData(h, x2, n) ==
  IF x2.obj # 0 THEN h[x2.obj].data ELSE [k \in 1..n |-> x2.val]

\* the outputs of the numpy function `name` on the entries a (and b):
\* logical_not, modf (fractional and integral part) and maximum
UfuncResult(name, a, b) ==
  CASE name = "logical_not" ->
         <<[k \in 1..Len(a) |-> IF a[k] = 0 THEN 1 ELSE 0]>>
    [] name = "modf" -> <<[k \in 1..Len(a) |-> 0], a>>
    [] OTHER -> <<[k \in 1..Len(a) |-> IF a[k] >= b[k] THEN a[k] ELSE b[k]]>>

\* the outcome of a wrapper: the objects after the call, the objects
\* returned, the output targets handed to the inner operation and the
\* number of elements created
UfuncOut(h, ret, passed, created) ==
  [objs |-> h, ret |-> ret, passed |-> passed, created |-> created]

\* `x2 in self.elem.space`
InSpace(h, e, x2) ==
  x2.obj # 0 /\ h[x2.obj].kind = h[e].kind /\ h[x2.obj].space = h[e].space

\* every result in a new element, whatever buffers are given
DiscreteLpWrapperFresh(name, h, e, x2, outs) ==
  LET res == UfuncResult(name, h[e].data,
                         OperandData(h, x2, Len(h[e].data)))
      new == [k \in 1..Len(outs) |-> LpElem(h[e].space, res[k])]
  IN UfuncOut(h \o new, [k \in 1..Len(outs) |-> Len(h) + k],
              [k \in 1..Len(outs) |-> Len(h) + k], Len(outs))

\* the wrappers of wrap_ufunc_discretelp (lines 246-283) on the element
\* h[e]; outs has one entry for every output, 0 standing for None
DiscreteLpWrapper(name, h, e, x2, outs) ==
  LET res == UfuncResult(name, h[e].data,
                         OperandData(h, x2, Len(h[e].data)))
  IN IF Len(outs) = 1
       THEN IF outs[1] = 0
              THEN UfuncOut(Append(h, LpElem(h[e].space, res[1])),
                            <<Len(h) + 1>>, <<>>, 1)
              ELSE UfuncOut([h EXCEPT ![outs[1]].data = res[1]],
                            outs, outs, 0)
       ELSE LET h1 == IF outs[1] = 0
                        THEN Append(h, LpElem(h[e].space, res[1])) ELSE h
                out1 == IF outs[1] = 0 THEN Len(h1) ELSE outs[1]
                h2 == IF outs[2] = 0
                        THEN Append(h1, LpElem(h[e].space, res[2])) ELSE h1
                out2 == IF outs[2] = 0 THEN Len(h2) ELSE outs[2]
            IN UfuncOut([h2 EXCEPT ![out1].data = res[1],
                                   ![out2].data = res[2]],
                        <<out1, out2>>, <<out1, out2>>,
                        Len(h2) - Len(h))

\* an element of a discretized function space comes into being
NewLp(space, data) ==
  /\ Len(objs) < MaxLp
  /\ objs' = Append(objs, LpElem(space, data))
  /\ last' = [NoCall EXCEPT !.op = "element", !.rets = <<Len(objs) + 1>>]
  /\ UNCHANGED <<generated, discvars>>

\* elem.ufuncs.<name>([x2,] out...) on the element e, with the wrapper the
\* generator built for the arity of `name`; a second operand is a scalar
\* or an element of the space of e, two buffers are two objects
LpCall(name, e, x2, outs) ==
  /\ e \in 1..Len(objs) /\ objs[e].kind = "lp"
  /\ wrap_ufunc_discretelp(nin(name), nout(name)).err = "none"
  /\ Len(outs) = nout(name)
  /\ \A k \in 1..Len(outs) : outs[k] \in 0..Len(objs)
  /\ Len(outs) = 2 => (outs[1] = 0 \/ outs[1] # outs[2])
  /\ Len(objs) + Cardinality({k \in 1..Len(outs) : outs[k] = 0}) <= MaxLp
  /\ IF nin(name) = 2
       THEN x2.obj \in 0..Len(objs) /\ (x2.obj # 0 => InSpace(objs, e, x2))
                                    /\ (x2.obj = 0 => x2.val >= 0)
       ELSE x2 = NoArg
  /\ LET r == DiscreteLpWrapper(name, objs, e, x2, outs) IN
       /\ objs' = r.objs
       /\ last' = [NoCall EXCEPT !.op = "lp_ufunc", !.a = name, !.elem = e,
                                 !.x2 = x2, !.outs = outs, !.rets = r.ret,
                                 !.passed = r.passed,
                                 !.created = r.created]
  /\ UNCHANGED <<generated, discvars>>

(***************************************************************************)
(* ProductSpaceUfuncs.  An element of a product space holds one component  *)
(* for every factor of the space, here the entries of each component.      *)
(***************************************************************************)
ProdElem(space, comps) == MkObj("prod", space, <<>>, 0, comps)

\* the entries the component k of the element is combined with
ComponentArg(h, e, x2, k) ==
  IF InSpace(h, e, x2)
    THEN h[x2.obj].comps[k]
    ELSE [j \in 1..Len(h[e].comps[k]) |-> x2.val]

\* the first component of the second operand handed to every component
ProductSpaceWrapperFirst(name, h, e, x2, out) ==
  LET n == Len(h[e].comps)
      res == [k \in 1..n |->
                UfuncResult(name, h[e].comps[k],
                            ComponentArg(h, e, x2, 1))[1]]
      passed == [k \in 1..n |-> <<x2, IF InSpace(h, e, x2) THEN 1 ELSE 0>>]
  IN IF out = 0
       THEN UfuncOut(Append(h, ProdElem(h[e].space, res)), <<Len(h) + 1>>,
                     passed, 1)
       ELSE UfuncOut([h EXCEPT ![out].comps = res], <<out>>, passed, 0)

\* the wrapper for two inputs and one output (lines 340-360) on the
\* element h[e]: the operand handed to component k is the component k of
\* x2 when x2 is in the space of the element, and x2 itself otherwise
ProductSpaceWrapper(name, h, e, x2, out) ==
  LET n == Len(h[e].comps)
      res == [k \in 1..n |->
                UfuncResult(name, h[e].comps[k],
                            ComponentArg(h, e, x2, k))[1]]
      passed == [k \in 1..n |-> <<x2, IF InSpace(h, e, x2) THEN k ELSE 0>>]
  IN IF out = 0
       THEN UfuncOut(Append(h, ProdElem(h[e].space, res)), <<Len(h) + 1>>,
                     passed, 1)
       ELSE UfuncOut([h EXCEPT ![out].comps = res], <<out>>, passed, 0)

\* an element of a product space comes into being
NewProd(space, comps) ==
  /\ Len(objs) < MaxProd
  /\ objs' = Append(objs, ProdElem(space, comps))
  /\ last' = [NoCall EXCEPT !.op = "element", !.rets = <<Len(objs) + 1>>]
  /\ UNCHANGED <<generated, discvars>>

\* elem.ufuncs.<name>(x2, out=out) on the element e of a product space; x2
\* is a scalar or an element of the space of e, and so is a buffer
ProdCall(name, e, x2, out) ==
  /\ e \in 1..Len(objs) /\ objs[e].kind = "prod"
  /\ wrap_ufunc_productspace(nin(name), nout(name)).err = "none"
  /\ nin(name) = 2
  /\ x2.obj \in 0..Len(objs) /\ (x2.obj = 0 => x2.val >= 0)
  /\ x2.obj # 0 => InSpace(objs, e, x2)
  /\ out \in 0..Len(objs)
  /\ out # 0 => InSpace(objs, e, ObjArg(out))
  /\ out = 0 => Len(objs) < MaxProd
  /\ LET r == ProductSpaceWrapper(name, objs, e, x2, out) IN
       /\ objs' = r.objs
       /\ last' = [NoCall EXCEPT !.op = "prod_ufunc", !.a = name,
                                 !.elem = e, !.x2 = x2,
                                 !.outs = IF out = 0 THEN <<>> ELSE <<out>>,
                                 !.rets = r.ret, !.passed = r.passed,
                                 !.created = r.created]
  /\ UNCHANGED <<generated, discvars>>

(***************************************************************************)
(* Specifications                                                          *)
(***************************************************************************)
Init ==
  /\ cuda \in BOOLEAN
  /\ discs = [s \in Slots |-> NoDisc]
  /\ heap = [r \in Refs |-> NoTuple]
  /\ elems = <<>>
  /\ origin = <<>>
  /\ generated = NoneGenerated
  /\ objs = <<>>
  /\ last = NoCall

\* construction, comparison of discretizations and the choice of the data
\* space type
Next ==
  \/ \E slot \in Slots, a \in CtorArgs : NewRawDiscretization(slot, a)
  \/ \E slot \in Slots, a \in CtorArgs : NewDiscretization(slot, a)
  \/ \E a \in Slots, b \in Slots : EqualsCall(a, b)
  \/ \E space \in TemplateSpaces, impl \in Impls : DspaceTypeCall(space, impl)

Spec == Init /\ [][Next]_vars

\* one discretization with data space Rn and the life of its elements; the
\* undiscretized space is L2, or Rn itself, whose n-tuples then belong to
\* both spaces
ElemArgs(u) ==
  {Args(u, RnS, r, e, o) :
     r \in {None, MkOp(u, RnS, TRUE, "C")},
     e \in {MkOp(RnS, u, TRUE, "noattr"), MkOp(RnS, RnS, TRUE, "noattr")},
     o \in {"C", "F"}}
ElemFns == {[k \in 1..Dim |-> 0], [k \in 1..Dim |-> 1]}

ElemInputs ==
  {NoneInp} \cup {TupleInp(r) : r \in Refs}
    \cup {FnInp(L2real, f) : f \in ElemFns}
    \cup {ArrInp(arr) : arr \in ArrayArgs}

InitElem ==
  /\ cuda = FALSE
  /\ discs = [s \in Slots |-> NoDisc]
  /\ heap = [r \in Refs |-> NoTuple]
  /\ elems = <<>>
  /\ origin = <<>>
  /\ generated = NoneGenerated
  /\ objs = <<>>
  /\ last = NoCall

NextElem ==
  \/ \E u \in {L2real, RnS} : \E a \in ElemArgs(u) :
       NewRawDiscretization("self", a)
  \/ \E u \in {L2real, RnS} : \E a \in ElemArgs(u) :
       NewDiscretization("self", a)
  \/ EqualsCall("self", "self")
  \/ \E data \in Data : NewNtuple("self", data)
  \/ \E inp \in ElemInputs :
       \E uninit \in (IF inp.tag = "None" THEN Data ELSE {Zeros}) :
         ElementCall("self", inp, uninit)
  \/ \E i \in 1..MaxElems : CopyCall(i)
  \/ \E i \in 1..MaxElems, k \in 1..Dim, x \in Vals : SetItemCall(i, k, x)
  \/ \E i \in 1..MaxElems, j \in 1..MaxElems : SetSliceCall(i, j)
  \/ \E i \in 1..MaxElems, j \in 1..MaxElems : VectorEqualsCall(i, j)
  \/ ZeroCall("self")
  \/ \E z \in 1..MaxElems, x \in 1..MaxElems, y \in 1..MaxElems,
        a \in Vals, b \in Vals : LincombCall(z, a, x, b, y)
  \/ \E z \in 1..MaxElems, x \in 1..MaxElems, y \in 1..MaxElems :
       MultiplyCall(z, x, y)

SpecElem == InitElem /\ [][NextElem]_vars

\* the discretizations of L2 spaces: the class and the function of
\* odl/discr/default.py, with CUDA available or not
SampleCounts == {1, 2}
Interps == {"nearest", "linear", "cubic"}
KwOrders == {"absent", "C", "F"}
Dtypes == {"None", "float32"}

DirectArgs ==
  {L2Args(u, "IntervalProd", d.dim, i, "numpy", o, "None", d, x) :
     u \in {L2real, L2complex, RnS}, d \in {RnS, CnS}, i \in Interps,
     o \in KwOrders, x \in BOOLEAN}
UniformArgs ==
  {L2Args(u, dom, n, i, impl, o, dt, Obj, x) :
     u \in {L2real, L2complex, RnS}, dom \in {"IntervalProd", "Set"},
     n \in SampleCounts, i \in Interps, impl \in Impls, o \in KwOrders,
     dt \in Dtypes, x \in BOOLEAN}

InitL2 ==
  /\ cuda \in BOOLEAN
  /\ discs = [s \in Slots |-> NoDisc]
  /\ heap = [r \in Refs |-> NoTuple]
  /\ elems = <<>>
  /\ origin = <<>>
  /\ generated = NoneGenerated
  /\ objs = <<>>
  /\ last = NoCall

NextL2 ==
  \/ \E a \in DirectArgs : NewDiscreteL2("self", a)
  \/ \E a \in UniformArgs : L2UniformDiscretization("self", a)

SpecL2 == InitL2 /\ [][NextL2]_vars

\* the import of odl/util/ufuncs.py and calls of the generators
Arities == 0..3

InitGen ==
  /\ cuda = FALSE
  /\ discs = [s \in Slots |-> NoDisc]
  /\ heap = [r \in Refs |-> NoTuple]
  /\ elems = <<>>
  /\ origin = <<>>
  /\ generated = NoneGenerated
  /\ objs = <<>>
  /\ last = NoCall

NextGen ==
  \/ \E f \in 1..Len(Families) : GenerateNext(f)
  \/ \E f \in 1..Len(Families), n_in \in Arities, n_out \in Arities :
       WrapCall(f, n_in, n_out)

SpecGen == InitGen /\ [][NextGen]_vars

\* tensors of weighted and unweighted spaces and their reductions
ArraySpace(shape) ==
  TSpace("NumpyTensorSpace", shape, "float64", "C", "2.0",
         Weighting("array", "2.0"))
ConstSpace(shape) ==
  TSpace("NumpyTensorSpace", shape, "float64", "F", "2.0",
         Weighting("const", "2.0"))
PlainSpace(shape) ==
  TSpace("TensorSpace", shape, "float64", "C", "None", NoWeightingAttr)
TensorArgs ==
  {<<ArraySpace(<<2, 2>>), <<0, 1, 1, 1>>>>,
   <<ConstSpace(<<2>>), <<0, 1>>>>,
   <<PlainSpace(<<1>>), <<0>>>>}
Reductions == {"sum"}
Axes == {"None", "0", "1"}

InitRed ==
  /\ cuda = FALSE
  /\ discs = [s \in Slots |-> NoDisc]
  /\ heap = [r \in Refs |-> NoTuple]
  /\ elems = <<>>
  /\ origin = <<>>
  /\ generated = NoneGenerated
  /\ objs = <<>>
  /\ last = NoCall

NextRed ==
  \/ \E t \in TensorArgs : NewTensor(t[1], t[2])
  \/ \E name \in Reductions, e \in 1..MaxObjs, axis \in Axes,
        out \in 0..MaxObjs, keepdims \in BOOLEAN,
        dtype \in {"absent", "float32"} :
       ReductionCall(name, e, axis, out, keepdims, dtype)

SpecRed == InitRed /\ [][NextRed]_vars

\* elements of two discretized function spaces and the operations on
\* them, one for every arity of the catalog
LpSpace(exponent) ==
  TSpace("DiscreteLp", <<1>>, "float64", "C", exponent, NoWeightingAttr)
LpArgs ==
  {<<LpSpace("2.0"), <<0>>>>, <<LpSpace("2.0"), <<1>>>>,
   <<LpSpace("1.0"), <<1>>>>}
LpOps == {"logical_not", "modf", "maximum"}
NextLp ==
  \/ \E a \in LpArgs : NewLp(a[1], a[2])
  \/ \E name \in LpOps, e \in 1..MaxLp :
       \E outs \in [1..nout(name) -> 0..MaxLp] :
         \E x2 \in (IF nin(name) = 2
                      THEN {Scalar(v) : v \in Vals}
                             \cup {ObjArg(i) : i \in 1..MaxLp}
                      ELSE {NoArg}) :
           LpCall(name, e, x2, outs)

SpecLp == InitRed /\ [][NextLp]_vars

\* elements of a product space of two and of one of three factors, each
\* factor holding one entry, and the two-input operation maximum
ProdArgs ==
  {<<TSpace("ProductSpace", <<Len(c)>>, "float64", "C", "2.0",
            NoWeightingAttr), c>> :
     c \in {<<<<0>>, <<1>>>>, <<<<1>>, <<0>>>>, <<<<0>>, <<1>>, <<0>>>>}}

NextProd ==
  \/ \E a \in ProdArgs : NewProd(a[1], a[2])
  \/ \E e \in 1..MaxProd, out \in 0..MaxProd,
        x2 \in {Scalar(v) : v \in Vals} \cup {ObjArg(i) : i \in 1..MaxProd} :
       ProdCall("maximum", e, x2, out)

SpecProd == InitRed /\ [][NextProd]_vars

(***************************************************************************)
(* Properties                                                              *)
(***************************************************************************)
IsCtor(op) == op \in {"RawDiscretization", "Discretization"}
Built(slot) == discs[slot] # NoDisc
Newest == elems[Len(elems)]

\* C1: a Discretization is equal to itself: d.equals(d) returns True, also
\* when d was built without a restriction or without an extension operator.
C1_SelfEquals ==
  (last.op = "equals" /\ last.a = last.b
     /\ discs[last.a].kind = "Discretization")
    => (last.err = "none" /\ last.ret = "True")

\* C2: equals reads the restriction (extension) of a side only when both
\* sides have one: whenever a side lacks a restriction or an extension,
\* equals returns a boolean and does not fail.
C2_EqualsNeverFails ==
  (last.op = "equals"
     /\ \E s \in {last.a, last.b} :
          discs[s].restriction = None \/ discs[s].extension = None)
    => (last.err = "none" /\ last.ret \in {"True", "False"})

\* C3: two discretizations built from the same uspace, dspace, restriction
\* and extension that differ only in their order are not equal: equals
\* returns False.
C3_OrderBreaksEquality ==
  (last.op = "equals"
     /\ discs[last.a].kind = discs[last.b].kind
     /\ discs[last.a].uspace = discs[last.b].uspace
     /\ discs[last.a].dspace = discs[last.b].dspace
     /\ discs[last.a].restriction = discs[last.b].restriction
     /\ discs[last.a].extension = discs[last.b].extension
     /\ discs[last.a].restriction # None
     /\ discs[last.a].extension # None
     /\ discs[last.a].order # discs[last.b].order)
    => last.ret = "False"

\* C4 as stated: whenever a constructor fails, none of the attributes
\* uspace, dspace, restriction, extension, order has been assigned.
C4_NothingCommitted ==
  (IsCtor(last.op) /\ last.err # "none") => last.committed = {}

\* C4 as amended: a failed construction produces no discretization; a
\* failure of a check of RawDiscretization.__init__ is raised before any
\* attribute is assigned, a failure of a check that Discretization.__init__
\* adds is raised after all five attributes have been assigned to the
\* object that is then discarded.
C4_Atomic ==
  (IsCtor(last.op) /\ last.err # "none")
    => /\ ~Built(last.a)
       /\ last.stage = "RawDiscretization.__init__" => last.committed = {}
       /\ last.stage = "Discretization.__init__" => last.committed = Attrs
       /\ last.stage = "Discretization.__init__"
            => last.err \in {"InvalidSpaceType", "FieldMismatch",
                             "NotLinearOperator"}

C4_Witness ==
  /\ last.op = "Discretization"
  /\ last.err = "FieldMismatch"
  /\ last.committed = Attrs
  /\ ~Built(last.a)

\* the table of C5: the type for a backend and a field class, "None" where
\* there is no implementation
C5_Table(impl, fld) ==
  CASE impl = "numpy" /\ fld = "RealNumbers" -> "Rn"
    [] impl = "numpy" /\ fld = "ComplexNumbers" -> "Cn"
    [] impl = "numpy" /\ fld = "nofield" -> "Ntuples"
    [] impl = "cuda" /\ fld = "RealNumbers" -> "CudaRn"
    [] impl = "cuda" /\ fld = "nofield" -> "CudaNtuples"
    [] OTHER -> "None"

C5_Outcome ==
  last.op = "dspace_type"
    => IF last.a \notin {"numpy", "cuda"}
         THEN last.err = "UnsupportedBackend"
       ELSE IF last.a = "cuda" /\ ~cuda
         THEN last.err = "BackendUnavailable"
       ELSE IF last.b \notin FieldKeys THEN TRUE
       ELSE IF C5_Table(last.a, last.b) = "None"
         THEN last.err = "UnsupportedFieldForBackend"
       ELSE last.err = "none" /\ last.ret = C5_Table(last.a, last.b)

\* C5: dspace_type fails with UnsupportedBackend for an unknown backend,
\* else with BackendUnavailable for an unavailable one whatever the field
\* class, else with UnsupportedFieldForBackend for a (backend, field class)
\* without implementation, and else returns the type of the table; the call
\* changes nothing.
C5_DspaceType ==
  /\ []C5_Outcome
  /\ [][last'.op = "dspace_type"
          => UNCHANGED <<generated, objs, cuda, discs, heap, elems,
                         origin>>]_vars

C5_Witness ==
  /\ last.op = "dspace_type"
  /\ last.a = "cuda"
  /\ ~cuda
  /\ last.b = "ComplexNumbers"
  /\ last.err = "BackendUnavailable"

InDspace(slot, inp) == Contains(discs[slot].dspace, inp, heap)
InUspace(slot, inp) == Contains(discs[slot].uspace, inp, heap)

\* C6: element(inp) decides in the order None, member of the data space,
\* member of the abstract space, coercion: an input in both spaces is
\* wrapped as it is and the restriction is not applied to it, and None
\* reaches no membership test.
C6_Priority ==
  last.op = "element"
    => /\ last.inp.tag = "None" <=> last.path = "none"
       /\ last.path = "none" => last.tests = <<>>
       /\ last.path = "dspace" <=> InDspace(last.a, last.inp)
       /\ last.path = "dspace"
            => /\ last.tests = <<"dspace">>
               /\ ~last.applied
               /\ Newest.ntuple = last.inp.ref
       /\ last.path = "uspace"
            <=> (~InDspace(last.a, last.inp) /\ InUspace(last.a, last.inp))
       /\ last.path \in {"uspace", "coerce"}
            => last.tests = <<"dspace", "uspace">>
       /\ last.applied => last.path = "uspace"

C6_Witness ==
  /\ last.op = "element"
  /\ InDspace(last.a, last.inp)
  /\ InUspace(last.a, last.inp)
  /\ discs[last.a].restriction # None
  /\ last.path = "dspace"
  /\ ~last.applied

Indices == 1..Len(elems)

C7_Wraps ==
  /\ (last.op = "element" /\ last.path = "dspace")
       => /\ Newest.ntuple = last.inp.ref
          /\ asarray(Newest, heap) = heap[last.inp.ref].data
  /\ \A i \in Indices :
       origin[i].wraps # 0
         => asarray(elems[i], heap) = heap[origin[i].wraps].data

C7_SetVisible ==
  \A i \in Indices, k \in 1..Dim, x \in Vals :
    (SetItemCall(i, k, x) /\ origin[i].wraps # 0)
      => heap'[origin[i].wraps].data[k] = x

\* C7: element(x) for x in the data space wraps x itself: the n-tuple of
\* the element is x, its asarray() is the array of x, and an indexed set
\* through the element shows in x.
C7_NoCopy == []C7_Wraps /\ [][C7_SetVisible]_vars

C7_Witness ==
  /\ last.op = "setitem"
  /\ \E i \in Indices :
       /\ origin[i].wraps # 0
       /\ elems[i].ntuple = origin[i].wraps
       /\ heap[origin[i].wraps].data = [k \in 1..Dim |-> 1]

C8_Outcome ==
  (last.op = "element"
     /\ InUspace(last.a, last.inp) /\ ~InDspace(last.a, last.inp))
    => IF discs[last.a].restriction # None
         THEN /\ last.err = "none"
              /\ last.path = "uspace"
              /\ last.applied
              /\ Newest.type = discs[last.a].kind
              /\ heap[Newest.ntuple].space = discs[last.a].dspace.id
              /\ asarray(Newest, heap) = Restrict(last.inp, heap)
         ELSE /\ last.err = "RestrictionUnavailable"
              /\ last.path = "uspace"
              /\ ~last.applied

\* C8: element(x) for x in the abstract space only: with a restriction the
\* result is the element wrapping restriction(x); without one the call
\* fails with RestrictionUnavailable, makes no element and does not go on
\* to the coercion.
C8_RestrictionPath ==
  /\ []C8_Outcome
  /\ [][(last'.op = "element" /\ last'.err = "RestrictionUnavailable")
          => UNCHANGED <<heap, elems, origin>>]_vars

C8_Witness ==
  /\ last.op = "element"
  /\ last.inp.tag = "fn"
  /\ discs[last.a].restriction = None
  /\ last.err = "RestrictionUnavailable"

\* elems[i] and elems[j] are an element and its copy()
CopyPair(i, j) == origin[i].copyOf = j \/ origin[j].copyOf = i

C9_Distinct ==
  /\ last.op = "copy"
       => /\ origin[Len(elems)].copyOf \in 1..(Len(elems) - 1)
          /\ VectorEquals(elems[origin[Len(elems)].copyOf], Newest, heap)
  /\ \A i \in Indices, j \in Indices :
       CopyPair(i, j) => elems[i].ntuple # elems[j].ntuple

C9_SetLocal ==
  \A i \in Indices, j \in Indices :
    (CopyPair(i, j)
       /\ \/ \E k \in 1..Dim, x \in Vals : SetItemCall(i, k, x)
          \/ \E w \in Indices : SetSliceCall(i, w))
      => asarray(elems[j], heap') = asarray(elems[j], heap)

\* C9: e.copy() is another element, equal to e, with storage of its own:
\* an indexed set on either of the two leaves the values of the other
\* unchanged.
C9_CopyIndependent == []C9_Distinct /\ [][C9_SetLocal]_vars

C9_Witness ==
  /\ last.op = "setitem"
  /\ \E i \in Indices :
       /\ origin[i].copyOf # 0
       /\ asarray(elems[i], heap) # asarray(elems[origin[i].copyOf], heap)

OperatorFits(op, dom, ran, order) ==
  op # None
    => /\ op.domain = dom
       /\ op.range = ran
       /\ op.order # "noattr" => op.order = order

\* C10: in every discretization that was constructed, a restriction maps
\* uspace to dspace, an extension maps dspace to uspace, and an operator
\* that has an order has the order of the discretization; element, copy,
\* indexed sets, equals and the linear primitives keep it so.
C10_OperatorsFit ==
  \A s \in Slots :
    Built(s)
      => /\ OperatorFits(discs[s].restriction, discs[s].uspace,
                         discs[s].dspace, discs[s].order)
         /\ OperatorFits(discs[s].extension, discs[s].dspace,
                         discs[s].uspace, discs[s].order)

C10_Witness ==
  /\ Built("self")
  /\ discs["self"].restriction # None
  /\ discs["self"].restriction.order = "C"
  /\ discs["self"].extension # None
  /\ last.op \in {"lincomb", "setitem", "copy"}

\* C19: for every template space, with or without a field and whatever the
\* type of its field, and for every backend, dspace_type returns a type or
\* fails with UnsupportedBackend, BackendUnavailable or
\* UnsupportedFieldForBackend.
C19_Total ==
  last.op = "dspace_type"
    => \/ last.err = "none" /\ last.ret # "-"
       \/ last.err \in {"UnsupportedBackend", "BackendUnavailable",
                        "UnsupportedFieldForBackend"}

\* the call of l2_uniform_discretization that passed the checks on the
\* space and its domain and the choice of the data space type
ReachedDiscreteL2 ==
  /\ last.op = "l2_uniform_discretization"
  /\ IsL2(last.l2.l2space)
  /\ last.l2.domain = "IntervalProd"
  /\ dspace_type(last.l2.l2space, last.l2.impl, cuda).err = "none"

\* C11: in l2_uniform_discretization the interpolation 'linear', known but
\* not implemented, fails with NotImplemented, and every other value that
\* is not 'nearest' fails with UnsupportedInterpolation.
C11_InterpFailures ==
  ReachedDiscreteL2
    => /\ last.l2.interp = "linear" => last.err = "NotImplemented"
       /\ last.l2.interp \notin {"nearest", "linear"}
            => last.err = "UnsupportedInterpolation"

\* C12: l2_uniform_discretization fails with nothing created (no grid, no
\* data space, no discretization) when the space is not an L2 space, when
\* its domain is not an interval product, or when the data space type
\* cannot be chosen; an unavailable backend 'cuda' gives BackendUnavailable.
C12_FailFast ==
  last.op = "l2_uniform_discretization"
    => /\ (\/ ~IsL2(last.l2.l2space)
           \/ last.l2.domain # "IntervalProd"
           \/ dspace_type(last.l2.l2space, last.l2.impl, cuda).err # "none")
            => /\ last.err # "none"
               /\ last.made = <<>>
               /\ last.committed = {}
               /\ ~Built(last.a)
       /\ (/\ IsL2(last.l2.l2space)
           /\ last.l2.domain = "IntervalProd"
           /\ last.l2.impl = "cuda"
           /\ ~cuda)
            => last.err = "BackendUnavailable"

C12_Witness ==
  /\ last.op = "l2_uniform_discretization"
  /\ IsL2(last.l2.l2space)
  /\ last.l2.domain = "IntervalProd"
  /\ last.l2.impl = "cuda"
  /\ ~cuda
  /\ last.err = "BackendUnavailable"
  /\ last.made = <<>>

\* C18: a DiscreteL2 built with the keyword order = o, o one of 'C' and
\* 'F', from an L2 space and a data space over the same field, is built
\* without failure and has order o, the order its operators were given.
C18_OrderKept ==
  (/\ last.op = "DiscreteL2"
   /\ IsL2(last.l2.l2space)
   /\ last.l2.interp = "nearest"
   /\ last.l2.dspace.field = last.l2.l2space.field
   /\ last.l2.order \in {"C", "F"})
    => /\ last.err = "none"
       /\ Built(last.a)
       /\ discs[last.a].order = last.l2.order

AcceptedByBase == {<<1, 1>>, <<1, 2>>, <<2, 1>>}

\* C17: wrap_ufunc_base builds a wrapper exactly for the arities (1, 1),
\* (1, 2) and (2, 1) and fails with UnsupportedArity for every other; every
\* entry of the catalog has one of these arities, and no generator of the
\* three families fails on an entry during the import.
C17_Generation ==
  /\ last.op = "wrap_ufunc_base"
       => IF <<last.n_in, last.n_out>> \in AcceptedByBase
            THEN last.err = "none" /\ last.ret = "wrapper"
            ELSE last.err = "UnsupportedArity"
  /\ last.op = "import"
       => /\ last.err = "none"
          /\ <<last.n_in, last.n_out>> \in AcceptedByBase
          /\ \E f \in 1..Len(Families) :
               GeneratorName(f) = last.a /\ last.b \in generated[f]

C17_Witness ==
  /\ \A f \in 1..Len(Families) :
       generated[f] = {UFUNCS[i].name : i \in 1..Len(UFUNCS)}
  /\ last.op = "wrap_ufunc_base"
  /\ last.n_in = 2
  /\ last.n_out = 2
  /\ last.err = "UnsupportedArity"

\* the element a call without buffer returned
Returned == objs[last.rets[1]]

\* C13: a reduction on a tensor without output buffer whose result is not
\* a scalar returns an element of a space without array weighting: for an
\* originating space with array weighting the result space has the
\* no-weighting of the originating exponent, and every other weighting is
\* that of the originating space.
C13_WeightingDowngrade ==
  (/\ last.op = "reduction"
   /\ last.err = "none"
   /\ last.outs = <<>>
   /\ last.scalar = -1)
    => /\ Len(last.rets) = 1
       /\ Returned.space.weighting.kind # "array"
       /\ IF objs[last.elem].space.weighting.kind = "array"
            THEN Returned.space.weighting
                   = Weighting("no", objs[last.elem].space.exponent)
            ELSE Returned.space.weighting
                   = objs[last.elem].space.weighting

C13_Witness ==
  /\ last.op = "reduction"
  /\ last.err = "none"
  /\ last.outs = <<>>
  /\ last.scalar = -1
  /\ objs[last.elem].space.weighting.kind = "array"
  /\ Returned.space.shape = <<2>>
  /\ Returned.data = <<1, 2>>

\* C14: a reduction with an output buffer constructs no space and no
\* object; when it does not fail it has written the result into the data
\* of the buffer and returns the buffer itself, and the input element, its
\* space and every other object are as before.
C14_OutBuffer ==
  [][(last'.op = "reduction" /\ last'.outs # <<>>)
       => /\ last'.spaces = 0
          /\ Len(objs') = Len(objs)
          /\ \A i \in 1..Len(objs) :
               /\ objs'[i].space = objs[i].space
               /\ (i # last'.outs[1] \/ last'.err # "none")
                    => objs'[i] = objs[i]
          /\ objs'[last'.elem] = objs[last'.elem]
          /\ last'.err = "none"
               => /\ last'.rets = last'.outs
                  /\ \E keepdims \in BOOLEAN :
                       LET red == Reduce(last'.a,
                                         objs[last'.elem].space.shape,
                                         objs[last'.elem].data, last'.b,
                                         keepdims)
                       IN /\ red.err = "none"
                          /\ red.shape = objs[last'.outs[1]].space.shape
                          /\ objs'[last'.outs[1]].data = red.data]_vars

C14_Witness ==
  /\ last.op = "reduction"
  /\ last.err = "none"
  /\ last.outs # <<>>
  /\ last.rets = last.outs
  /\ last.elem # last.outs[1]
  /\ objs[last.elem].data = <<0, 1, 1, 1>>
  /\ objs[last.outs[1]].data = <<1, 2>>

\* the outputs of the last operation for which a buffer was given, and
\* those for which none was given
Given == {k \in 1..Len(last'.outs) : last'.outs[k] # 0}
Missing == {k \in 1..Len(last'.outs) : last'.outs[k] = 0}

\* what the operation computes from the entries of the element and of the
\* second operand, as they were before the call
InnerResult ==
  UfuncResult(last'.a, objs[last'.elem].data,
              OperandData(objs, last'.x2, Len(objs[last'.elem].data)))

\* a call without buffer: every object returned is a new element of the
\* space of the element and wraps the result of the inner operation, and
\* no object that existed is modified
C16_NoBuffer ==
  Given = {}
    => /\ \A k \in 1..Len(last'.rets) :
            /\ last'.rets[k] > Len(objs)
            /\ objs'[last'.rets[k]].kind = "lp"
            /\ objs'[last'.rets[k]].space = objs[last'.elem].space
            /\ objs'[last'.rets[k]].data = InnerResult[k]
       /\ \A i \in 1..Len(objs) : objs'[i] = objs[i]

\* a buffer is the target of the inner operation, is returned itself and
\* holds the result
C16_BufferIsTarget ==
  \A k \in Given :
    /\ last'.passed[k] = last'.outs[k]
    /\ last'.rets[k] = last'.outs[k]
    /\ objs'[last'.outs[k]].data = InnerResult[k]

\* C16: an operation of DiscreteLpUfuncs without output buffer returns a
\* new element of the space of the element that wraps the result of the
\* inner tensor and does not modify the input; with an output buffer the
\* inner tensor of the buffer is the target of the inner operation, the
\* buffer itself is returned, and no new element is created.
C16_Delegation ==
  [][last'.op = "lp_ufunc"
       => /\ C16_NoBuffer
          /\ C16_BufferIsTarget
          /\ Given # {}
               => /\ last'.rets = last'.outs
                  /\ last'.created = 0
                  /\ Len(objs') = Len(objs)]_vars

\* C16 as it holds: as above for an operation given a buffer for each of
\* its outputs; an operation with two outputs that is given only one of
\* the two buffers creates one new element of the space of the element for
\* the other output and returns the pair; only the buffers are modified.
C16_DelegationAmended ==
  [][last'.op = "lp_ufunc"
       => /\ C16_NoBuffer
          /\ C16_BufferIsTarget
          /\ Len(last'.rets) = Len(last'.outs)
          /\ last'.created = Cardinality(Missing)
          /\ Len(objs') = Len(objs) + Cardinality(Missing)
          /\ \A k \in Missing :
               /\ last'.rets[k] > Len(objs)
               /\ objs'[last'.rets[k]].space = objs[last'.elem].space
               /\ objs'[last'.rets[k]].data = InnerResult[k]
          /\ \A i \in 1..Len(objs) :
               (\A k \in Given : last'.outs[k] # i) => objs'[i] = objs[i]]_vars

C16_Witness ==
  /\ last.op = "lp_ufunc"
  /\ last.a = "maximum"
  /\ last.x2.obj # 0
  /\ Len(last.outs) = 1
  /\ last.outs[1] \notin {0, last.elem, last.x2.obj}
  /\ last.rets = last.outs
  /\ objs[last.elem].data = <<0>>
  /\ objs[last.outs[1]].data = <<1>>

\* C15: for a two-input operation on an element P(a_1..a_n) of a product
\* space: with x2 in the same space the result is componentwise,
\* result_k = op(a_k, x2_k), and component k is handed x2_k; with x2 not in
\* the space every component is handed x2 itself, result_k = op(a_k, x2);
\* the result has the n components of the element, in their order.
C15_Componentwise ==
  [][last'.op = "prod_ufunc"
       => LET e == last'.elem
              x2 == last'.x2
              result == objs'[last'.rets[1]]
          IN /\ result.kind = "prod"
             /\ result.space = objs[e].space
             /\ Len(result.comps) = Len(objs[e].comps)
             /\ Len(last'.passed) = Len(objs[e].comps)
             /\ \A k \in 1..Len(objs[e].comps) :
                  IF InSpace(objs, e, x2)
                    THEN /\ last'.passed[k] = <<x2, k>>
                         /\ result.comps[k]
                              = UfuncResult(last'.a, objs[e].comps[k],
                                            objs[x2.obj].comps[k])[1]
                    ELSE /\ last'.passed[k] = <<x2, 0>>
                         /\ result.comps[k]
                              = UfuncResult(last'.a, objs[e].comps[k],
                                            <<x2.val>>)[1]]_vars

C15_Witness ==
  /\ last.op = "prod_ufunc"
  /\ last.outs = <<>>
  /\ last.x2.obj \notin {0, last.elem}
  /\ objs[last.elem].comps = <<<<0>>, <<1>>>>
  /\ objs[last.x2.obj].comps = <<<<1>>, <<0>>>>
  /\ objs[last.rets[1]].comps = <<<<1>>, <<1>>>>
====
